---- MODULE Spec2Model ----
(***************************************************************************)
(* Model of src/value.rs of llvm-rs: the typed views Value, Arg and        *)
(* Function over the engine's value handles, and the Attribute bit flags.  *)
(*                                                                         *)
(* The wrappers hold no state of their own: every operation is one or more *)
(* calls into the engine (ffi::core).  The state of the model is therefore *)
(* the engine's state for one function F, its parameters and one value V,  *)
(* together with a record of the operation that ran last.                  *)
(***************************************************************************)
EXTENDS Integers, Sequences, FiniteSets, TLC

(* ------------------------------ bounds --------------------------------- *)
MaxParams == 2
MaxLen == 2
MaxIndex == 3
MaxNameLen == 3
MaxBlocks == 4

(* --------------------------- enum Attribute ---------------------------- *)
\* A binary literal of the source: the digits `m` followed by `s` zeros, that
\* is m * 2^s (the values reach 2^31, so they are kept in this form).
Lit(m, s) == [ m |-> m, s |-> s ]

\* The discriminants of `enum Attribute`, as written in the source.
AttributeValue ==
  [ ZExt            |-> Lit(1, 0),
    SExt            |-> Lit(1, 1),
    NoReturn        |-> Lit(1, 2),
    InReg           |-> Lit(1, 3),
    StructRet       |-> Lit(1, 4),
    NoUnwind        |-> Lit(1, 5),
    NoAlias         |-> Lit(1, 6),
    ByVal           |-> Lit(1, 7),
    Nest            |-> Lit(1, 8),
    ReadNone        |-> Lit(1, 9),
    ReadOnly        |-> Lit(1, 10),
    NoInline        |-> Lit(1, 11),
    AlwaysInline    |-> Lit(1, 12),
    OptimizeForSize |-> Lit(1, 13),
    StackProtect    |-> Lit(1, 14),
    StackProtectReq |-> Lit(1, 15),
    Alignment       |-> Lit(1, 16),
    NoCapture       |-> Lit(1, 17),
    NoRedZone       |-> Lit(1, 18),
    NoImplicitFloat |-> Lit(1, 19),
    Naked           |-> Lit(1, 20),
    InlineHint      |-> Lit(1, 21),
    StackAlignment  |-> Lit(7, 26),
    ReturnsTwice    |-> Lit(1, 29),
    UWTable         |-> Lit(1, 30),
    NonLazyBind     |-> Lit(1, 31) ]

Attribute == DOMAIN AttributeValue

\* The attributes the operations are exercised with: the multi-bit field and
\* a flag.
TestAttrs == { "StackAlignment", "Alignment" }

\* The bit positions of the digits of a literal (at most 8 digits).
DigitBits(m) == { k \in 0..7 : (m \div (2^k)) % 2 = 1 }

\* A 32-bit mask as the set of its bit positions: the bits of v.m moved up
\* by v.s, those beyond bit 31 dropped.
BitsOf(v) == { k + v.s : k \in DigitBits(v.m) } \cap (0..31)

\* impl From<Attribute> for LLVMAttribute: transmute keeps the 32 bits.
AttrToLLVMTable == [ a \in Attribute |-> BitsOf(AttributeValue[a]) ]

AttrToLLVM(a) == AttrToLLVMTable[a]

\* LLVMAttribute::contains, as used by has_attribute: all bits of `pa`.
Contains(bits, pa) == pa \subseteq bits

(* ------------------------------ handles -------------------------------- *)
FnHandle == << "function", 0 >>
ParamHandle(i) == << "param", i >>
IsParam(h) == h[1] = "param"

Null == << "null", 0 >>
BlockHandle(n) == << "block", n >>

\* Option<T>: None, or Some(x).
None == << >>
Some(x) == << x >>

VARIABLES
  nparams,        \* LLVMCountParams(F)
  funcAttrs,      \* the engine's attribute mask of F
  argAttrs,       \* the engine's attribute mask of each parameter of F
  aborted,        \* the process has stopped (panic, or abort in the engine)
  last,           \* the attribute or index operation that ran last
  valueName,      \* the engine's name of the value V: None, or Some(bytes)
  nameLast,       \* the name operation that ran last
  blocks,         \* the engine's block list of F
  firstAppended,  \* what the first append on F returned (Null before it)
  blockLast       \* the block operation that ran last

attrVars == << nparams, funcAttrs, argAttrs, last >>
nameVars == << valueName, nameLast >>
blockVars == << blocks, firstAppended, blockLast >>
vars == << attrVars, aborted, nameVars, blockVars >>

Params == 0 .. (nparams - 1)

(* --------------------- the engine's attribute calls -------------------- *)
Call(fn, h, pa) == [ fn |-> fn, h |-> h, pa |-> pa ]

\* The engine's attribute state, as a value.
Eng == [ fa |-> funcAttrs, pa |-> argAttrs, ab |-> aborted ]

\* LLVMAddAttribute(Arg, PA): ORs PA onto the parameter's set.
LLVMAddAttribute(e, h, pa) ==
  { [ e EXCEPT !.pa[h[2]] = @ \cup pa ] }

\* LLVMAddFunctionAttr(Fn, PA): ORs PA onto the function's set.
LLVMAddFunctionAttr(e, h, pa) ==
  { [ e EXCEPT !.fa = @ \cup pa ] }

\* LLVMRemoveAttribute(Arg, PA): clears PA from the parameter's set.  The
\* call takes a parameter; handed a handle that is not one, its behaviour is
\* undefined: the process may stop, nothing may happen, or the bits may be
\* cleared on some parameter.  It never reaches the function's own set,
\* which only the *FunctionAttr calls operate on.
LLVMRemoveAttribute(e, h, pa) ==
  IF IsParam(h)
  THEN { [ e EXCEPT !.pa[h[2]] = @ \ pa ] }
  ELSE { e, [ e EXCEPT !.ab = TRUE ] }
       \cup { [ e EXCEPT !.pa[j] = @ \ pa ] : j \in DOMAIN e.pa }

EngineStep(e, c) ==
  CASE c.fn = "LLVMAddAttribute"    -> LLVMAddAttribute(e, c.h, c.pa)
    [] c.fn = "LLVMAddFunctionAttr" -> LLVMAddFunctionAttr(e, c.h, c.pa)
    [] c.fn = "LLVMRemoveAttribute" -> LLVMRemoveAttribute(e, c.h, c.pa)

\* LLVMGetAttribute / LLVMGetFunctionAttr: the current mask of a handle.
AttrsOf(e, h) == IF IsParam(h) THEN e.pa[h[2]] ELSE e.fa

\* The engine states a handler's calls lead through, one per call made; a
\* call that stops the process is the last one.
RECURSIVE RunCalls(_, _)
RunCalls(e, calls) ==
  IF calls = << >>
  THEN { << >> }
  ELSE UNION { IF e2.ab
               THEN { << e2 >> }
               ELSE { << e2 >> \o r : r \in RunCalls(e2, Tail(calls)) }
               : e2 \in EngineStep(e, Head(calls)) }

(* -------------------------- what the handlers do ----------------------- *)
\* The loop of add_attributes: sum = empty; for attr in attrs: sum |= attr.
SumAttrs_Last(attrs) ==
  IF attrs = << >> THEN {} ELSE AttrToLLVM(attrs[Len(attrs)])

RECURSIVE SumAttrs(_)
SumAttrs(attrs) ==
  IF attrs = << >> THEN {}
  ELSE AttrToLLVM(Head(attrs)) \cup SumAttrs(Tail(attrs))

ArgAddAttributeCalls(i, attr) ==
  << Call("LLVMAddAttribute", ParamHandle(i), AttrToLLVM(attr)) >>

ArgAddAttributesCalls_PerAttr(i, attrs) ==
  [ k \in 1..Len(attrs) |->
      Call("LLVMAddAttribute", ParamHandle(i), AttrToLLVM(attrs[k])) ]

ArgAddAttributesCalls(i, attrs) ==
  << Call("LLVMAddAttribute", ParamHandle(i), SumAttrs(attrs)) >>

ArgRemoveAttributeCalls_Add(i, attr) ==
  << Call("LLVMAddAttribute", ParamHandle(i), AttrToLLVM(attr)) >>

ArgRemoveAttributeCalls(i, attr) ==
  << Call("LLVMRemoveAttribute", ParamHandle(i), AttrToLLVM(attr)) >>

FunctionAddAttributeCalls(attr) ==
  << Call("LLVMAddFunctionAttr", FnHandle, AttrToLLVM(attr)) >>

FunctionAddAttributesCalls(attrs) ==
  << Call("LLVMAddFunctionAttr", FnHandle, SumAttrs(attrs)) >>

FunctionRemoveAttributeCalls(attr) ==
  << Call("LLVMRemoveAttribute", FnHandle, AttrToLLVM(attr)) >>

\* has_attribute: other = LLVMGet...(self); other.contains(attr.into()).
ArgHasAttributeResult(e, i, attr) ==
  Contains(AttrsOf(e, ParamHandle(i)), AttrToLLVM(attr))

FunctionHasAttributeResult(e, attr) ==
  Contains(AttrsOf(e, FnHandle), AttrToLLVM(attr))

HasAttributeOn(e, h, attr) ==
  IF IsParam(h) THEN ArgHasAttributeResult(e, h[2], attr)
  ELSE FunctionHasAttributeResult(e, attr)

\* The record of the operation that ran last.
NoOp ==
  [ op |-> "none", tgt |-> FnHandle, attrs |-> << >>, calls |-> << >>,
    visited |-> << >>, afterAdd |-> FALSE, ret |-> FALSE,
    idx |-> None, arg |-> Null, prev |-> None ]

\* The engine states a handler's calls can end in.
AfterCalls(e, calls) ==
  IF calls = << >> THEN { e }
  ELSE { run[Len(run)] : run \in RunCalls(e, calls) }

\* A handler that makes `calls` and returns nothing.  `afterAdd` notes that
\* the handler is remove_attribute(A) run right after add_attribute(A) on the
\* same handle.
Perform(op, h, attrs, calls) ==
  /\ \E run \in RunCalls(Eng, calls) :
       LET e2 == IF run = << >> THEN Eng ELSE run[Len(run)]
       IN /\ funcAttrs' = e2.fa
          /\ argAttrs' = e2.pa
          /\ aborted' = e2.ab
          /\ last' = [ op |-> op, tgt |-> h, attrs |-> attrs, calls |-> calls,
                       visited |-> [ k \in 1..Len(run) |-> AttrsOf(run[k], h) ],
                       afterAdd |-> /\ op = "remove_attribute"
                                    /\ last.op = "add_attribute"
                                    /\ last.tgt = h
                                    /\ last.attrs = attrs,
                       ret |-> FALSE,
                       idx |-> None, arg |-> Null, prev |-> None ]
  /\ UNCHANGED << nparams, nameVars, blockVars >>

Slices == UNION { [ 1..n -> TestAttrs ] : n \in 0..MaxLen }

ArgAddAttribute ==
  /\ ~aborted
  /\ \E i \in Params, a \in TestAttrs :
      Perform("add_attribute", ParamHandle(i), << a >>, ArgAddAttributeCalls(i, a))

ArgAddAttributes ==
  /\ ~aborted
  /\ \E i \in Params, s \in Slices :
      Perform("add_attributes", ParamHandle(i), s, ArgAddAttributesCalls(i, s))

ArgRemoveAttribute ==
  /\ ~aborted
  /\ \E i \in Params, a \in TestAttrs :
      Perform("remove_attribute", ParamHandle(i), << a >>,
              ArgRemoveAttributeCalls(i, a))

ArgHasAttribute ==
  /\ ~aborted
  /\ \E i \in Params, a \in TestAttrs :
      /\ last' = [ NoOp EXCEPT !.op = "has_attribute", !.tgt = ParamHandle(i),
                               !.attrs = << a >>,
                               !.ret = ArgHasAttributeResult(Eng, i, a) ]
      /\ UNCHANGED << nparams, funcAttrs, argAttrs, aborted, nameVars, blockVars >>

FunctionAddAttribute ==
  /\ ~aborted
  /\ \E a \in TestAttrs :
      Perform("add_attribute", FnHandle, << a >>, FunctionAddAttributeCalls(a))

FunctionAddAttributes ==
  /\ ~aborted
  /\ \E s \in Slices :
      Perform("add_attributes", FnHandle, s, FunctionAddAttributesCalls(s))

FunctionRemoveAttribute ==
  /\ ~aborted
  /\ \E a \in TestAttrs :
      Perform("remove_attribute", FnHandle, << a >>,
              FunctionRemoveAttributeCalls(a))

FunctionHasAttribute ==
  /\ ~aborted
  /\ \E a \in TestAttrs :
      /\ last' = [ NoOp EXCEPT !.op = "has_attribute", !.tgt = FnHandle,
                               !.attrs = << a >>,
                               !.ret = FunctionHasAttributeResult(Eng, a) ]
      /\ UNCHANGED << nparams, funcAttrs, argAttrs, aborted, nameVars, blockVars >>

(* ------------------------ Value::get_name / set_name ------------------- *)
\* Text is a sequence of bytes; 0 is the terminator of native strings.
Bytes == 0..2
Texts == UNION { [ 1..n -> Bytes ] : n \in 0..MaxNameLen }

\* The bytes of a native string: those before the first terminator.
RECURSIVE CStrBytes(_)
CStrBytes(buf) ==
  IF buf = << >> \/ Head(buf) = 0 THEN << >>
  ELSE << Head(buf) >> \o CStrBytes(Tail(buf))

\* CString::new(name): an error if a 0 byte is in `name`, else the bytes with
\* the terminator appended.
CStringNew(name) ==
  IF \E k \in 1..Len(name) : name[k] = 0
  THEN [ ok |-> FALSE, buf |-> << >> ]
  ELSE [ ok |-> TRUE, buf |-> name \o << 0 >> ]

\* A pointer to a native string: the null pointer, or a buffer.
NullPtr == None
Buffer(buf) == Some(buf)

\* LLVMSetValueName(V, buf): the engine keeps the native string's bytes as
\* the name of V.
LLVMSetValueName(buf) == Some(CStrBytes(buf))

\* LLVMGetValueName(V): the null pointer for a value without a name, else a
\* buffer holding the name and its terminator.
LLVMGetValueName(name) ==
  IF name = None THEN NullPtr ELSE Buffer(name[1] \o << 0 >>)

\* util::to_null_str: None for the null pointer, else the native string.
ToNullStr(ptr) == IF ptr = NullPtr THEN None ELSE Some(CStrBytes(ptr[1]))

\* `lastSet` is the text of the latest set_name that returned, None while
\* there was none.
NoName ==
  [ op |-> "none", name |-> << >>, called |-> FALSE, ret |-> None,
    lastSet |-> None ]

ValueGetName_EmptyIsNone(name) ==
  LET r == ToNullStr(LLVMGetValueName(name))
  IN IF r = Some(<< >>) THEN None ELSE r

ValueGetName(name) == ToNullStr(LLVMGetValueName(name))

GetName ==
  /\ ~aborted
  /\ nameLast' = [ NoName EXCEPT !.op = "get_name", !.called = TRUE,
                                 !.ret = ValueGetName(valueName),
                                 !.lastSet = nameLast.lastSet ]
  /\ UNCHANGED << valueName, aborted, attrVars, blockVars >>

ValueSetName_Unchecked(old, name) ==
  [ panic |-> FALSE, called |-> TRUE,
    name |-> LLVMSetValueName(name \o << 0 >>) ]

\* set_name(name): whether it panics, whether it calls the engine, and the
\* engine's name of the value afterwards.
ValueSetName(old, name) ==
  LET c == CStringNew(name)
  IN IF c.ok
     THEN [ panic |-> FALSE, called |-> TRUE, name |-> LLVMSetValueName(c.buf) ]
     ELSE [ panic |-> TRUE, called |-> FALSE, name |-> old ]

SetName ==
  /\ ~aborted
  /\ \E name \in Texts :
      LET r == ValueSetName(valueName, name)
      IN /\ valueName' = r.name
         /\ aborted' = r.panic
         /\ nameLast' = [ NoName EXCEPT !.op = "set_name", !.name = name,
                                        !.called = r.called,
                                        !.lastSet = IF r.panic
                                                    THEN nameLast.lastSet
                                                    ELSE Some(name) ]
  /\ UNCHANGED << attrVars, blockVars >>

(* ------------------------ Function::append / get_entry ----------------- *)
BlockNames == { "entry", "body", "exit" }

\* LLVMAppendBasicBlockInContext: a new block at the end of F's list.
LLVMAppendBasicBlock(bs, name) ==
  bs \o << [ h |-> BlockHandle(Len(bs) + 1), name |-> name ] >>

\* LLVMGetEntryBasicBlock: the first block of F, null if F has none.
LLVMGetEntryBasicBlock(bs) == IF bs = << >> THEN Null ELSE bs[1].h

\* transmute of a block pointer to Option<&BasicBlock>: null is None.
TransmuteOption(ptr) == IF ptr = Null THEN None ELSE Some(ptr)

NoBlockOp == [ op |-> "none", ret |-> None ]

\* append(name): the block list afterwards; the new block is returned.
FunctionAppend(bs, name) == LLVMAppendBasicBlock(bs, name)

AppendBlock ==
  /\ ~aborted
  /\ Len(blocks) < MaxBlocks
  /\ \E name \in BlockNames :
      LET bs == FunctionAppend(blocks, name)
          new == (CHOOSE b \in { bs[k] : k \in 1..Len(bs) } :
                    \A k \in 1..Len(blocks) : blocks[k].h # b.h).h
      IN /\ blocks' = bs
         /\ firstAppended' = IF firstAppended = Null THEN new
                              ELSE firstAppended
         /\ blockLast' = [ op |-> "append", ret |-> Some(new) ]
  /\ UNCHANGED << aborted, attrVars, nameVars >>

FunctionGetEntry_Last(bs) ==
  TransmuteOption(IF bs = << >> THEN Null ELSE bs[Len(bs)].h)

FunctionGetEntry(bs) == TransmuteOption(LLVMGetEntryBasicBlock(bs))

GetEntry ==
  /\ ~aborted
  /\ blockLast' = [ op |-> "get_entry", ret |-> FunctionGetEntry(blocks) ]
  /\ UNCHANGED << blocks, firstAppended, aborted, attrVars, nameVars >>

(* ----------------------- impl Index<usize> for Function ---------------- *)
\* A usize (64 bits) as its upper and its lower 32 bits.
Usize(hi, lo) == [ hi |-> hi, lo |-> lo ]

\* `c as usize` of a c_uint, and `u as c_uint` of a usize (drops the upper
\* 32 bits).
CUintAsUsize(c) == Usize(0, c)
UsizeAsCUint(u) == u.lo

UsizeLess(a, b) == a.hi < b.hi \/ (a.hi = b.hi /\ a.lo < b.lo)

IndexInputs == { Usize(hi, lo) : hi \in 0..1, lo \in 0..MaxIndex }

\* LLVMCountParams(F), and LLVMGetParam(F, i): the engine's i-th parameter.
LLVMCountParams == nparams
LLVMGetParam(i) == ParamHandle(i)

FunctionIndex_OffByOne(index) ==
  IF index.hi = 0 /\ index.lo <= LLVMCountParams
  THEN [ calls |-> << Call("LLVMCountParams", FnHandle, {}),
                      Call("LLVMGetParam", FnHandle, { UsizeAsCUint(index) }) >>,
         arg |-> LLVMGetParam(UsizeAsCUint(index)),
         panic |-> FALSE ]
  ELSE [ calls |-> << Call("LLVMCountParams", FnHandle, {}),
                      Call("LLVMTypeOf", FnHandle, {}) >>,
         arg |-> Null,
         panic |-> TRUE ]

\* index(): the engine calls made, the Arg returned, and whether it panics.
FunctionIndex(index) ==
  IF UsizeLess(index, CUintAsUsize(LLVMCountParams))
  THEN [ calls |-> << Call("LLVMCountParams", FnHandle, {}),
                      Call("LLVMGetParam", FnHandle, { UsizeAsCUint(index) }) >>,
         arg |-> LLVMGetParam(UsizeAsCUint(index)),
         panic |-> FALSE ]
  ELSE [ calls |-> << Call("LLVMCountParams", FnHandle, {}),
                      Call("LLVMTypeOf", FnHandle, {}) >>,
         arg |-> Null,
         panic |-> TRUE ]

\* `prev` is the index and the result of the lookup that ran right before
\* this one, if the operation before this one was a lookup.
Index ==
  /\ ~aborted
  /\ \E index \in IndexInputs :
      LET r == FunctionIndex(index)
      IN /\ last' = [ NoOp EXCEPT !.op = "index", !.calls = r.calls,
                                  !.idx = Some(index), !.arg = r.arg,
                                  !.prev = IF last.op = "index"
                                           THEN << last.idx[1], last.arg >>
                                           ELSE None ]
         /\ aborted' = r.panic
         /\ UNCHANGED << nparams, funcAttrs, argAttrs, nameVars, blockVars >>

\* A function as declared: no attribute set on it or on its parameters, no
\* block; a value that was never named.
InitAll ==
  /\ nparams \in 0..MaxParams
  /\ funcAttrs = {}
  /\ argAttrs = [ i \in Params |-> {} ]
  /\ aborted = FALSE
  /\ last = NoOp
  /\ valueName = None
  /\ nameLast = NoName
  /\ blocks = << >>
  /\ firstAppended = Null
  /\ blockLast = NoBlockOp

Init == InitAll

Next ==
  \/ ArgAddAttribute
  \/ ArgAddAttributes
  \/ ArgHasAttribute
  \/ ArgRemoveAttribute
  \/ FunctionAddAttribute
  \/ FunctionAddAttributes
  \/ FunctionHasAttribute
  \/ FunctionRemoveAttribute
  \/ Index

Spec == Init /\ [][Next]_vars

InitName == InitAll /\ nparams = 0

NextName ==
  \/ GetName
  \/ SetName

SpecName == InitName /\ [][NextName]_vars

InitBlocks == InitAll /\ nparams = 0

NextBlocks ==
  \/ AppendBlock
  \/ GetEntry

SpecBlocks == InitBlocks /\ [][NextBlocks]_vars

(* ------------------------------ properties ----------------------------- *)
AddAttributeCalls(h, a) ==
  IF IsParam(h) THEN ArgAddAttributeCalls(h[2], a)
  ELSE FunctionAddAttributeCalls(a)

\* remove_attribute(A) on handle-kind `param`: right after add_attribute(A)
\* has_attribute(A) is false; where has_attribute(A) was false before, it
\* stays false and the set of the handle is unchanged.
RemoveContract(param) ==
  ( /\ last'.op = "remove_attribute"
    /\ IsParam(last'.tgt) = param
    /\ ~aborted' )
  => LET h == last'.tgt
         a == last'.attrs[1]
     IN /\ last'.afterAdd => ~HasAttributeOn(Eng', h, a)
        /\ ~HasAttributeOn(Eng, h, a)
             => /\ ~HasAttributeOn(Eng', h, a)
                /\ AttrsOf(Eng', h) = AttrsOf(Eng, h)

\* C1: on a Function, add_attribute(A) then remove_attribute(A) leaves
\* has_attribute(A) false, and remove_attribute(A) of an attribute that is
\* not set leaves has_attribute(A) false and the function's set unchanged.
C1_FunctionAddRemove == [][RemoveContract(FALSE)]_vars

\* C3: on an Arg, add_attribute(A) then remove_attribute(A) leaves
\* has_attribute(A) false, and remove_attribute(A) of an attribute that is
\* not set leaves has_attribute(A) false and the parameter's set unchanged.
C3_ArgAddRemove == [][RemoveContract(TRUE)]_vars

\* An Arg on which add_attribute(A), remove_attribute(A) just ran, other
\* attributes still being set on it.
C3_Witness ==
  /\ last.op = "remove_attribute"
  /\ IsParam(last.tgt)
  /\ last.afterAdd
  /\ ~aborted
  /\ AttrsOf(Eng, last.tgt) # {}
  /\ ~HasAttributeOn(Eng, last.tgt, last.attrs[1])

\* C4: after add_attributes([A, B]) has_attribute(A) and has_attribute(B)
\* hold, and the engine's state is the one add_attribute(A) followed by
\* add_attribute(B) leads to, and the one the other order leads to.
C4_AddAttributesIsUnion ==
  [][ ( /\ last'.op = "add_attributes"
        /\ Len(last'.attrs) = 2
        /\ ~aborted' )
      => LET h == last'.tgt
             a == last'.attrs[1]
             b == last'.attrs[2]
         IN /\ HasAttributeOn(Eng', h, a)
            /\ HasAttributeOn(Eng', h, b)
            /\ AfterCalls(Eng, AddAttributeCalls(h, a) \o AddAttributeCalls(h, b))
                 = { Eng' }
            /\ AfterCalls(Eng, AddAttributeCalls(h, b) \o AddAttributeCalls(h, a))
                 = { Eng' } ]_vars

\* add_attributes([A, B]) with A # B has just run on a parameter that held
\* neither: both are set now.
C4_Witness ==
  /\ last.op = "add_attributes"
  /\ Len(last.attrs) = 2
  /\ last.attrs[1] # last.attrs[2]
  /\ IsParam(last.tgt)
  /\ AttrsOf(Eng, last.tgt)
       = AttrToLLVM(last.attrs[1]) \cup AttrToLLVM(last.attrs[2])

\* C5: add_attributes makes exactly one update call to the engine, whatever
\* the slice (empty, repeated attributes), with the union of the given
\* attributes as its mask; the only state the engine's set passes through is
\* the final one.
C5_SingleCombinedUpdate ==
  last.op = "add_attributes"
  => /\ Len(last.calls) = 1
     /\ last.calls[1].fn
          = (IF IsParam(last.tgt) THEN "LLVMAddAttribute"
             ELSE "LLVMAddFunctionAttr")
     /\ last.calls[1].h = last.tgt
     /\ last.calls[1].pa
          = UNION { AttrToLLVM(last.attrs[k]) : k \in 1..Len(last.attrs) }
     /\ last.visited = << AttrsOf(Eng, last.tgt) >>

\* add_attributes with two different attributes has run with one call.
C5_Witness ==
  /\ last.op = "add_attributes"
  /\ Len(last.attrs) = 2
  /\ last.attrs[1] # last.attrs[2]
  /\ Len(last.calls) = 1
  /\ Len(last.visited) = 1

IsSingleBit(v) == v.m = 1 /\ v.s \in 0..31

\* The bits of v are `width` adjacent bits.
IsField(v, width) ==
  /\ Cardinality(BitsOf(v)) = width
  /\ \E lo \in 0..31 : BitsOf(v) = lo .. (lo + width - 1)

\* The mask of attribute a is one bit, or for Alignment a field of 5 bits
\* and for StackAlignment a field of 3 bits, and shares no bit with the mask
\* of another attribute.
LayoutOK(a) ==
  /\ CASE a = "Alignment"      -> IsField(AttributeValue[a], 5)
        [] a = "StackAlignment" -> IsField(AttributeValue[a], 3)
        [] OTHER                -> IsSingleBit(AttributeValue[a])
  /\ \A b \in Attribute \ { a } : AttrToLLVM(a) \cap AttrToLLVM(b) = {}

\* C6: every attribute an operation is given is encoded as one bit of its
\* own, except Alignment, a field of 5 bits, and StackAlignment, a field of
\* 3 bits.
C6_AttributeLayout ==
  \A k \in 1..Len(last.attrs) : LayoutOK(last.attrs[k])

Handles == { FnHandle } \cup { ParamHandle(i) : i \in Params }

\* C10: add_attribute, add_attributes and remove_attribute on one handle (a
\* parameter of F, or F) leave has_attribute of every attribute unchanged
\* on every other handle.
C10_AttributeSetsIndependent ==
  [][ ( /\ last'.op \in { "add_attribute", "add_attributes",
                          "remove_attribute" }
        /\ ~aborted' )
      => \A g \in Handles \ { last'.tgt } : \A a \in Attribute :
           HasAttributeOn(Eng', g, a) = HasAttributeOn(Eng, g, a) ]_vars

InRange(i) == i.hi = 0 /\ i.lo < nparams

\* C2: F[i] with i below the parameter count returns the engine's i-th
\* parameter, the same one as the lookup of i right before it; F[i] with
\* any other i panics and makes no LLVMGetParam call.
C2_IndexBoundsChecked ==
  last.op = "index"
  => LET i == last.idx[1]
     IN /\ InRange(i)
             => /\ ~aborted
                /\ last.arg = LLVMGetParam(i.lo)
                /\ \E k \in 1..Len(last.calls) :
                     last.calls[k] = Call("LLVMGetParam", FnHandle, { i.lo })
        /\ ~InRange(i)
             => /\ aborted
                /\ \A k \in 1..Len(last.calls) :
                     last.calls[k].fn # "LLVMGetParam"
        /\ (last.prev # None /\ ~aborted)
             => (last.prev[1] = i => last.prev[2] = last.arg)

\* Two lookups of the same index in a row, both returned.
C2_Witness ==
  /\ last.op = "index"
  /\ ~aborted
  /\ last.prev # None
  /\ last.prev[1] = last.idx[1]
  /\ last.arg = ParamHandle(1)

\* C7: get_entry returns None while nothing was appended to F, and
\* afterwards the block the first append returned; append returns the block
\* it put at the end of the list.
C7_EntryIsFirstAppended ==
  /\ blockLast.op = "get_entry"
       => blockLast.ret = (IF firstAppended = Null THEN None
                           ELSE Some(firstAppended))
  /\ blockLast.op = "append"
       => blockLast.ret = Some(blocks[Len(blocks)].h)
  /\ (firstAppended = Null) <=> (blocks = << >>)

\* get_entry after several appends.
C7_Witness ==
  /\ blockLast.op = "get_entry"
  /\ Len(blocks) >= 2
  /\ blockLast.ret = Some(firstAppended)

\* C8: get_name returns None while no set_name has returned, and
\* Some(s) after set_name(s), the empty s included.
C8_NameRoundTrip ==
  nameLast.op = "get_name" => nameLast.ret = nameLast.lastSet

\* get_name after set_name("").
C8_Witness ==
  /\ nameLast.op = "get_name"
  /\ nameLast.lastSet = Some(<< >>)
  /\ nameLast.ret = Some(<< >>)

HasNul(name) == \E k \in 1..Len(name) : name[k] = 0

\* C9: set_name with a 0 byte in the name panics without calling the
\* engine, and the engine's name of the value is unchanged.
C9_SetNameRejectsNul ==
  [][ (nameLast'.op = "set_name" /\ HasNul(nameLast'.name))
      => /\ aborted'
         /\ ~nameLast'.called
         /\ valueName' = valueName ]_vars

\* set_name with a 0 byte in the name has panicked on a named value.
C9_Witness ==
  /\ nameLast.op = "set_name"
  /\ HasNul(nameLast.name)
  /\ aborted
  /\ valueName # None
  /\ valueName = nameLast.lastSet

TypeOK ==
  /\ nparams \in 0..MaxParams
  /\ funcAttrs \subseteq 0..31
  /\ \A i \in Params : argAttrs[i] \subseteq 0..31
  /\ aborted \in BOOLEAN
====
